---- MODULE Spec2Model ----
(***************************************************************************)
(* The "life" example: a closed-type-set ECS (storage registry, system    *)
(* list, single-pass update) driven by App::init / App::run.              *)
(*                                                                         *)
(* Four specifications share the variables:                                *)
(*   Spec       the program: main() = App::init() then App::run()          *)
(*   SpecECS    the ECS class with its two systems, driven through its     *)
(*              public interface (add_system, update) from populated       *)
(*              storages drawn from TestEntities                           *)
(*   SpecStore  the storage registry from construction, driven through     *)
(*              add_component and add_system                               *)
(*   SpecLife   the storage as App::init fills it, over many updates       *)
(*                                                                         *)
(* float values (uniforms, colours) are written in hundredths: 0.5 is 50,  *)
(* 1.0 is 100, the integer 800 converted to float is 80000.                *)
(***************************************************************************)
EXTENDS Integers, Sequences, FiniteSets, TLC

(***************************************************************************)
(* Bounds.  The source sets EntityesCount = 100000; the population is      *)
(* scaled down here, every loop over it is kept.  MaxComponents bounds    *)
(* the add_component calls per type in SpecStore, LifeTicks the updates    *)
(* in SpecLife.                                                            *)
(***************************************************************************)
EntityesCount == 2
MaxFrames == 2
MaxTicks == 2
MaxSystems == 2
MaxComponents == 2
LifeTicks == 400

(***************************************************************************)
(* Program constants.                                                      *)
(***************************************************************************)
m_particle_shader_id == 1
m_text_shader_id == 2
m_mesh_id == 1
m_text_id == 2

\* N::Size(800, 600) handed to MovementSystem's constructor
m_size == [width |-> 800, height |-> 600]

\* m_window("Life", {800, 600})
WindowSize == [width |-> 800, height |-> 600]

\* ECS<RenderComponent, SizeComponent, PositionComponent, MovementComponent>
ComponentTypes ==
    {"RenderComponent", "SizeComponent", "PositionComponent", "MovementComponent"}

SystemNames == {"RenderSystem", "MovementSystem"}

VARIABLES
    pc,         \* where main() / the driver stands
    m_storage,  \* ECS::m_storage: component type -> container (sequence)
    m_systems,  \* ECS::m_systems: the registered systems, in order
    sysIdx,     \* ECS::update: position in m_systems of the system in hand (0: not in update)
    entIdx,     \* the running system's loop variable `index`
    m_close,    \* the window's close-requested flag, read by should_close()
    queue,      \* draw submissions accepted by the renderer since the last display()
    loads,      \* outcome of each resource load App::init attempted
    fault,      \* position of the system whose update() threw (0: none)
    frames,     \* frames of App::run started
    ticks,      \* calls of ECS::update started
    checks,     \* calls of should_close()
    moves,      \* per entity index, the MovementSystem iterations done on it
    added,      \* per component type, the values handed to add_component, in call order
    log         \* what ran since the current frame / update started

vars == <<pc, m_storage, m_systems, sysIdx, entIdx, m_close, queue, loads, fault,
          frames, ticks, checks, moves, added, log>>

(***************************************************************************)
(* Arithmetic of the source.                                               *)
(***************************************************************************)
Abs(a) == IF a < 0 THEN -a ELSE a

\* C++ integer division: the quotient is truncated toward zero
TruncDiv(a, b) ==
    IF (a >= 0) = (b > 0) THEN Abs(a) \div Abs(b) ELSE -(Abs(a) \div Abs(b))

RECURSIVE FloatUlp(_, _)
\* the spacing of binary32 values around magnitude a (24-bit significand)
FloatUlp(a, u) == IF a < 16777216 * u THEN u ELSE FloatUlp(a, 2 * u)

\* int -> float: exact up to 2^24, round-to-nearest-even beyond; in hundredths
IntToFloat(i) ==
    LET a == Abs(i)
        u == FloatUlp(a, 1)
        q == a \div u
        r == a % u
        n == IF 2 * r > u \/ (2 * r = u /\ q % 2 = 1) THEN (q + 1) * u ELSE q * u
    IN  100 * (IF i < 0 THEN -n ELSE n)

Vec(x, y) == [x |-> x, y |-> y]

(***************************************************************************)
(* ECS.                                                                    *)
(***************************************************************************)
\* ECS::ECS(): one empty container per declared type
EmptyStorage == [t \in ComponentTypes |-> << >>]

\* the alternatives of StorageItemType, in declaration order: ECS() puts the
\* container of the i-th declared type at m_storage[i]
VariantTypes ==
    <<"RenderComponent", "SizeComponent", "PositionComponent", "MovementComponent">>

Slot(i) == VariantTypes[i + 1]

\* a faulty variant: the search stops at once, whatever the alternative there
get_component_index_first(types, T, index) == index

RECURSIVE get_component_index(_, _, _)
\* get_component_index<VariantType, T, index>: the position of T among the
\* alternatives, searched from `index` on
get_component_index(types, T, index) ==
    IF index = Len(types) THEN index
    ELSE IF types[index + 1] = T THEN index
    ELSE get_component_index(types, T, index + 1)

component_index_v(T) == get_component_index(VariantTypes, T, 0)

\* ECS::add_component: push_back on the container of the component's type
add_component(store, type, component) ==
    [store EXCEPT ![Slot(component_index_v(type))] = Append(@, component)]

\* ECS::add_system: set_storage(this), then push_back
add_system(systems, system) == Append(systems, system)

\* ECS::component<T>(index): the element at `index` (0-based) of T's container
component(store, type, index) == store[Slot(component_index_v(type))][index + 1]


(***************************************************************************)
(* The two systems, one entity at a time.                                  *)
(***************************************************************************)
\* a faulty variant: the position is advanced by the offset as it stood before the flip
MoveEntity_lagged(p, s, m) ==
    LET ox == IF p.x + TruncDiv(s.x, 2) > m_size.width \/ p.x - TruncDiv(s.x, 2) < 0
              THEN m.x * (-1) ELSE m.x
        oy == IF p.y + TruncDiv(s.y, 2) > m_size.height \/ p.y - TruncDiv(s.y, 2) < 0
              THEN m.y * (-1) ELSE m.y
    IN  [pos |-> Vec(p.x + m.x, p.y + m.y), offset |-> Vec(ox, oy)]

\* a faulty variant: the new position is clamped so that the box stays in the domain
MoveEntity_clamped(p, s, m) ==
    LET ox == IF p.x + TruncDiv(s.x, 2) > m_size.width \/ p.x - TruncDiv(s.x, 2) < 0
              THEN m.x * (-1) ELSE m.x
        oy == IF p.y + TruncDiv(s.y, 2) > m_size.height \/ p.y - TruncDiv(s.y, 2) < 0
              THEN m.y * (-1) ELSE m.y
        clamp(v, lo, hi) == IF v < lo THEN lo ELSE IF v > hi THEN hi ELSE v
    IN  [pos |-> Vec(clamp(p.x + ox, TruncDiv(s.x, 2), m_size.width - TruncDiv(s.x, 2)),
                     clamp(p.y + oy, TruncDiv(s.y, 2), m_size.height - TruncDiv(s.y, 2))),
         offset |-> Vec(ox, oy)]

\* a faulty variant: only the far edge is tested
MoveEntity_far_only(p, s, m) ==
    LET ox == IF p.x + TruncDiv(s.x, 2) > m_size.width THEN m.x * (-1) ELSE m.x
        oy == IF p.y + TruncDiv(s.y, 2) > m_size.height THEN m.y * (-1) ELSE m.y
    IN  [pos |-> Vec(p.x + ox, p.y + oy), offset |-> Vec(ox, oy)]

\* the body of MovementSystem::update's loop on one entity's values:
\* p = PositionComponent.pos, s = SizeComponent.size, m = MovementComponent.offset
\* a faulty variant: a flip also changes the speed
MoveEntity_drift(p, s, m) ==
    LET ox == IF p.x + TruncDiv(s.x, 2) > m_size.width \/ p.x - TruncDiv(s.x, 2) < 0
              THEN 1 - m.x ELSE m.x
        oy == IF p.y + TruncDiv(s.y, 2) > m_size.height \/ p.y - TruncDiv(s.y, 2) < 0
              THEN 1 - m.y ELSE m.y
    IN  [pos |-> Vec(p.x + ox, p.y + oy), offset |-> Vec(ox, oy)]

MoveEntity(p, s, m) ==
    LET ox == IF p.x + TruncDiv(s.x, 2) > m_size.width \/ p.x - TruncDiv(s.x, 2) < 0
              THEN m.x * (-1) ELSE m.x
        oy == IF p.y + TruncDiv(s.y, 2) > m_size.height \/ p.y - TruncDiv(s.y, 2) < 0
              THEN m.y * (-1) ELSE m.y
    IN  [pos |-> Vec(p.x + ox, p.y + oy), offset |-> Vec(ox, oy)]

\* a faulty variant: the iteration also writes the entity's size
MovementSystem_update_resize(store, index) ==
    LET p == component(store, "PositionComponent", index)
        s == component(store, "SizeComponent", index)
        m == component(store, "MovementComponent", index)
        n == MoveEntity(p.pos, s.size, m.offset)
    IN  [store EXCEPT !["MovementComponent"][index + 1] = [offset |-> n.offset],
                      !["PositionComponent"][index + 1] = [pos |-> n.pos],
                      !["SizeComponent"][index + 1] = [size |-> Vec(s.size.x + 1, s.size.y)]]

\* MovementSystem::update, iteration `index`: the storage it leaves
MovementSystem_update(store, index) ==
    LET p == component(store, "PositionComponent", index)
        s == component(store, "SizeComponent", index)
        m == component(store, "MovementComponent", index)
        n == MoveEntity(p.pos, s.size, m.offset)
    IN  [store EXCEPT !["MovementComponent"][index + 1] = [offset |-> n.offset],
                      !["PositionComponent"][index + 1] = [pos |-> n.pos]]

Uniform(name, value) == [name |-> name, value |-> value]

\* the argument list of one Renderer::render call
DrawCall(mesh, shader, uniforms) == [mesh |-> mesh, shader |-> shader, uniforms |-> uniforms]

\* a faulty variant: the position is read from the first entity at every iteration
RenderSystem_update_first_pos(store, index) ==
    LET r == component(store, "RenderComponent", index)
        s == component(store, "SizeComponent", index)
        p == component(store, "PositionComponent", 0)
    IN  DrawCall(m_mesh_id, m_particle_shader_id,
                 << Uniform("pos", <<IntToFloat(p.pos.x), IntToFloat(p.pos.y), 0>>),
                    Uniform("size", <<IntToFloat(s.size.x), IntToFloat(s.size.y), 100>>),
                    Uniform("color", r.color) >>)

\* RenderSystem::update, iteration `index`: the submission it makes
RenderSystem_update(store, index) ==
    LET r == component(store, "RenderComponent", index)
        s == component(store, "SizeComponent", index)
        p == component(store, "PositionComponent", index)
    IN  DrawCall(m_mesh_id, m_particle_shader_id,
                 << Uniform("pos", <<IntToFloat(p.pos.x), IntToFloat(p.pos.y), 0>>),
                    Uniform("size", <<IntToFloat(s.size.x), IntToFloat(s.size.y), 100>>),
                    Uniform("color", r.color) >>)

\* App::render_fps: the two submissions (label background, label text); the text
\* mesh is reloaded from the fps figures, which the model does not follow
render_fps_draws ==
    << DrawCall(m_mesh_id, m_text_shader_id,
                << Uniform("pos", <<IntToFloat(WindowSize.width - 80), 5500, 10>>),
                   Uniform("size", <<10000, 2000, 100>>),
                   Uniform("color", <<2, 2, 2, 255>>) >>),
       DrawCall(m_text_id, m_text_shader_id,
                << Uniform("pos", <<IntToFloat(WindowSize.width) - 12000, 5000, 15>>),
                   Uniform("size", <<1500, 1500, 100>>),
                   Uniform("color", <<90, 50, 60, 100>>) >>) >>

(***************************************************************************)
(* The log: one record per thing that ran.                                 *)
(***************************************************************************)
Event(ev, sys, k, i) == [ev |-> ev, sys |-> sys, k |-> k, i |-> i]

(***************************************************************************)
(* ECS::update, step by step.  pc = "ecs_update" from the call to the      *)
(* return; sysIdx walks m_systems, entIdx is the running system's loop     *)
(* variable.                                                               *)
(***************************************************************************)
\* a faulty variant: the pass starts at the second registered system
ECS_update_call_skip_first ==
    /\ pc = "ecs_update" /\ sysIdx = 0
    /\ sysIdx' = 2 /\ entIdx' = 0
    /\ ticks' = ticks + 1
    /\ UNCHANGED <<added, moves, pc, m_storage, m_systems, m_close, queue, loads, fault, frames,
                   checks, log>>

\* the call: the range-for starts at the first registered system
ECS_update_call ==
    /\ pc = "ecs_update" /\ sysIdx = 0
    /\ sysIdx' = 1 /\ entIdx' = 0
    /\ ticks' = ticks + 1
    /\ UNCHANGED <<added, moves, pc, m_storage, m_systems, m_close, queue, loads, fault, frames,
                   checks, log>>

\* s->update() of the system in hand: one iteration of its loop over the entities
System_update_step ==
    /\ pc = "ecs_update" /\ sysIdx \in 1..Len(m_systems)
    /\ entIdx < EntityesCount
    /\ LET sys == m_systems[sysIdx] IN
         /\ CASE sys = "RenderSystem" ->
                   /\ queue' = Append(queue, RenderSystem_update(m_storage, entIdx))
                   /\ UNCHANGED <<m_storage, moves>>
              [] sys = "MovementSystem" ->
                   /\ m_storage' = MovementSystem_update(m_storage, entIdx)
                   /\ moves' = [moves EXCEPT ![entIdx] = @ + 1]
                   /\ UNCHANGED queue
         /\ log' = Append(log, Event("access", sys, sysIdx, entIdx))
    /\ entIdx' = entIdx + 1
    /\ UNCHANGED <<added, pc, m_systems, sysIdx, m_close, loads, fault, frames, ticks, checks>>

\* the system's loop is over: update() returns and the range-for advances
System_update_return ==
    /\ pc = "ecs_update" /\ sysIdx \in 1..Len(m_systems)
    /\ entIdx = EntityesCount
    /\ log' = Append(log, Event("return", m_systems[sysIdx], sysIdx, entIdx))
    /\ sysIdx' = sysIdx + 1 /\ entIdx' = 0
    /\ UNCHANGED <<added, moves, pc, m_storage, m_systems, m_close, queue, loads, fault, frames,
                   ticks, checks>>

\* a faulty variant: ECS::update catches the throw and goes on with the next system
System_update_fault_caught ==
    /\ pc = "ecs_update" /\ sysIdx \in 1..Len(m_systems)
    /\ fault' = sysIdx
    /\ log' = Append(log, Event("fault", m_systems[sysIdx], sysIdx, entIdx))
    /\ sysIdx' = sysIdx + 1 /\ entIdx' = 0
    /\ UNCHANGED <<added, moves, pc, m_storage, m_systems, m_close, queue, loads, frames,
                   ticks, checks>>

\* the system in hand throws: nothing in ECS::update, App::run or main catches
System_update_fault ==
    /\ pc = "ecs_update" /\ sysIdx \in 1..Len(m_systems)
    /\ fault' = sysIdx
    /\ log' = Append(log, Event("fault", m_systems[sysIdx], sysIdx, entIdx))
    /\ pc' = "terminated"
    /\ UNCHANGED <<added, moves, m_storage, m_systems, sysIdx, entIdx, m_close, queue, loads, frames,
                   ticks, checks>>

\* the range-for is exhausted: ECS::update returns to its caller at `ret`
ECS_update_return(ret) ==
    /\ pc = "ecs_update" /\ sysIdx = Len(m_systems) + 1
    /\ log' = Append(log, Event("ecs_update", "", 0, 0))
    /\ pc' = ret /\ sysIdx' = 0
    /\ UNCHANGED <<added, moves, m_storage, m_systems, entIdx, m_close, queue, loads, fault, frames,
                   ticks, checks>>

(***************************************************************************)
(* App.                                                                    *)
(***************************************************************************)
\* what NU::random_numbers can hand App::init, a few values of each range:
\* three colour channels in [0.2, 1.0], width and height in [10, 20], a position
\* in [100, 200]^2, an offset in [-10, 10]^2
ColorDraws == {<<50, 60, 70>>, <<20, 100, 30>>}
SizeDraws == {<<15, 10>>}
PosDraws == {<<100, 100>>, <<200, 150>>}
OffsetDraws == {<<-10, 10>>, <<0, 3>>}

RandomDraws ==
    [color : ColorDraws, size : SizeDraws, pos : PosDraws, offset : OffsetDraws]

\* the four components App::init builds from one round of draws
RenderOf(d) == [color |-> <<d.color[1], d.color[2], d.color[2], 100>>]
SizeOf(d) == [size |-> Vec(d.size[1], d.size[2])]
PositionOf(d) == [pos |-> Vec(d.pos[1], d.pos[2])]
MovementOf(d) == [offset |-> Vec(d.offset[1], d.offset[2])]

\* a faulty variant: the MovementComponent is not added
add_entity_short(store, r, s, p, m) ==
    add_component(
        add_component(
            add_component(store, "RenderComponent", r),
            "SizeComponent", s),
        "PositionComponent", p)

\* one iteration of App::init's loop: the four add_component calls
add_entity(store, r, s, p, m) ==
    add_component(
        add_component(
            add_component(
                add_component(store, "RenderComponent", r),
                "SizeComponent", s),
            "PositionComponent", p),
        "MovementComponent", m)

RECURSIVE populate(_, _, _)
\* a faulty variant: the loop stops one entity early
populate_short(store, draws, i) ==
    IF i >= EntityesCount - 1 THEN store
    ELSE populate(add_entity(store, RenderOf(draws[i + 1]), SizeOf(draws[i + 1]),
                             PositionOf(draws[i + 1]), MovementOf(draws[i + 1])),
                  draws, i + 1)

\* App::init's loop, from iteration i on; draws[i + 1] is what iteration i drew
populate(store, draws, i) ==
    IF i >= EntityesCount THEN store
    ELSE populate(add_entity(store, RenderOf(draws[i + 1]), SizeOf(draws[i + 1]),
                             PositionOf(draws[i + 1]), MovementOf(draws[i + 1])),
                  draws, i + 1)

\* the values App::init hands to add_component, per component type, in loop order
components_of(draws) ==
    [t \in ComponentTypes |->
        [i \in 1..EntityesCount |->
            CASE t = "RenderComponent" -> RenderOf(draws[i])
              [] t = "SizeComponent" -> SizeOf(draws[i])
              [] t = "PositionComponent" -> PositionOf(draws[i])
              [] t = "MovementComponent" -> MovementOf(draws[i])]]

\* the loads App::init attempts, in order, and where it stops: a failed font or
\* shader load throws, the mesh load's result is dropped
init_loads(font, particle, text, mesh) ==
    [font |-> IF font THEN "ok" ELSE "fail",
     particle_shader |-> IF ~font THEN "none" ELSE IF particle THEN "ok" ELSE "fail",
     text_shader |-> IF ~font \/ ~particle THEN "none"
                     ELSE IF text THEN "ok" ELSE "fail",
     mesh |-> IF ~font \/ ~particle \/ ~text THEN "none"
              ELSE IF mesh THEN "ok" ELSE "fail"]

\* whether App::init leaves by a throw
init_throws(l) ==
    l.font = "fail" \/ l.particle_shader = "fail" \/ l.text_shader = "fail"

NoLoads == [font |-> "none", particle_shader |-> "none", text_shader |-> "none",
            mesh |-> "none"]

\* a faulty variant: MovementSystem is registered before RenderSystem
App_init_movement_first ==
    /\ pc = "main"
    /\ \E draws \in [1..EntityesCount -> RandomDraws],
          font \in BOOLEAN, particle \in BOOLEAN, text \in BOOLEAN, mesh \in BOOLEAN :
         /\ m_storage' = populate(m_storage, draws, 0)
         /\ m_systems' = add_system(add_system(m_systems, "MovementSystem"),
                                    "RenderSystem")
         /\ loads' = init_loads(font, particle, text, mesh)
         /\ pc' = IF init_throws(loads') THEN "terminated" ELSE "run"
         /\ added' = components_of(draws)
    /\ UNCHANGED <<moves, sysIdx, entIdx, m_close, queue, fault, frames, ticks, checks, log>>

\* main(): app.init(), and app.run() when it returns
App_init ==
    /\ pc = "main"
    /\ \E draws \in [1..EntityesCount -> RandomDraws],
          font \in BOOLEAN, particle \in BOOLEAN, text \in BOOLEAN, mesh \in BOOLEAN :
         /\ m_storage' = populate(m_storage, draws, 0)
         /\ m_systems' = add_system(add_system(m_systems, "RenderSystem"),
                                    "MovementSystem")
         /\ loads' = init_loads(font, particle, text, mesh)
         /\ pc' = IF init_throws(loads') THEN "terminated" ELSE "run"
         /\ added' = components_of(draws)
    /\ UNCHANGED <<moves, sysIdx, entIdx, m_close, queue, fault, frames, ticks, checks, log>>

\* App::run up to the loop: begin_profiling, m_window.show(), the timers.
\* Showing the window may already deliver a close request.
App_run_show ==
    /\ pc = "run"
    /\ \E close \in BOOLEAN : m_close' = (m_close \/ close)
    /\ pc' = "loop"
    /\ UNCHANGED <<added, moves, m_storage, m_systems, sysIdx, entIdx, queue, loads, fault, frames,
                   ticks, checks, log>>

\* a faulty variant: display() is called before render_fps()
run_next_display_first(step) ==
    CASE step = "process_events" -> "ecs_update"
      [] step = "ecs_update" -> "display"
      [] step = "display" -> "render_fps"
      [] step = "render_fps" -> "tick"
      [] step = "tick" -> "loop"

\* the order of the statements of the loop body of App::run
run_next(step) ==
    CASE step = "process_events" -> "ecs_update"
      [] step = "ecs_update" -> "render_fps"
      [] step = "render_fps" -> "display"
      [] step = "display" -> "tick"
      [] step = "tick" -> "loop"

\* a faulty variant: a do-while, the first frame runs without looking at the flag
App_run_test_do_while ==
    /\ pc = "loop"
    /\ m_close \/ frames < MaxFrames
    /\ checks' = checks + 1
    /\ IF m_close /\ frames > 0
       THEN pc' = "dump" /\ UNCHANGED <<frames, log>>
       ELSE pc' = "process_events" /\ frames' = frames + 1 /\ log' = << >>
    /\ UNCHANGED <<added, moves, m_storage, m_systems, sysIdx, entIdx, m_close, queue, loads, fault,
                   ticks>>

\* while (!m_window.should_close())
App_run_test ==
    /\ pc = "loop"
    /\ m_close \/ frames < MaxFrames
    /\ checks' = checks + 1
    /\ IF m_close
       THEN pc' = "dump" /\ UNCHANGED <<frames, log>>
       ELSE pc' = "process_events" /\ frames' = frames + 1 /\ log' = << >>
    /\ UNCHANGED <<added, moves, m_storage, m_systems, sysIdx, entIdx, m_close, queue, loads, fault,
                   ticks>>

\* m_window.process_events(): the pending events may hold a close request
App_process_events ==
    /\ pc = "process_events"
    /\ \E close \in BOOLEAN : m_close' = (m_close \/ close)
    /\ log' = Append(log, Event("process_events", "", 0, 0))
    /\ pc' = run_next("process_events")
    /\ UNCHANGED <<added, moves, m_storage, m_systems, sysIdx, entIdx, queue, loads, fault, frames,
                   ticks, checks>>

\* m_ecs.update() returns into the loop body
App_ecs_update_return == ECS_update_return(run_next("ecs_update"))

App_render_fps ==
    /\ pc = "render_fps"
    /\ queue' = queue \o render_fps_draws
    /\ log' = Append(log, Event("render_fps", "", 0, Len(render_fps_draws)))
    /\ pc' = run_next("render_fps")
    /\ UNCHANGED <<added, moves, m_storage, m_systems, sysIdx, entIdx, m_close, loads, fault, frames,
                   ticks, checks>>

\* m_renderer.display(): the accumulated submissions are presented
App_display ==
    /\ pc = "display"
    /\ queue' = << >>
    /\ log' = Append(log, Event("display", "", 0, Len(queue)))
    /\ pc' = run_next("display")
    /\ UNCHANGED <<added, moves, m_storage, m_systems, sysIdx, entIdx, m_close, loads, fault, frames,
                   ticks, checks>>

\* App::tick(): the frame timing (durations and fps figures are not followed)
App_tick ==
    /\ pc = "tick"
    /\ log' = Append(log, Event("tick", "", 0, 0))
    /\ pc' = run_next("tick")
    /\ UNCHANGED <<added, moves, m_storage, m_systems, sysIdx, entIdx, m_close, queue, loads, fault,
                   frames, ticks, checks>>

\* after the loop: NP::dump_to_file, run() returns, main() returns
App_run_return ==
    /\ pc = "dump"
    /\ pc' = "returned"
    /\ UNCHANGED <<m_storage, m_systems, sysIdx, entIdx, m_close, queue, loads, fault,
                   frames, ticks, checks, moves, added, log>>

\* App app: the members as constructed
Init ==
    /\ pc = "main"
    /\ m_storage = EmptyStorage
    /\ m_systems = << >>
    /\ sysIdx = 0 /\ entIdx = 0
    /\ m_close = FALSE
    /\ queue = << >>
    /\ loads = NoLoads
    /\ fault = 0
    /\ frames = 0 /\ ticks = 0 /\ checks = 0
    /\ moves = [i \in 0..(EntityesCount - 1) |-> 0]
    /\ added = EmptyStorage
    /\ log = << >>

Next ==
    \/ App_init
    \/ App_run_show
    \/ App_run_test
    \/ App_process_events
    \/ ECS_update_call
    \/ System_update_step
    \/ System_update_return
    \/ System_update_fault
    \/ App_ecs_update_return
    \/ App_render_fps
    \/ App_display
    \/ App_tick
    \/ App_run_return

Spec == Init /\ [][Next]_vars

(***************************************************************************)
(* The ECS on its own: storages populated by add_component, then any       *)
(* sequence of add_system and update calls.  The entity values are not     *)
(* confined to what App::init draws.                                       *)
(***************************************************************************)
TestEntities ==
    { [color |-> <<20, 100, 30>>, size |-> <<2, 2>>, pos |-> <<0, 0>>, offset |-> <<-5, -5>>],
      [color |-> <<20, 100, 30>>, size |-> <<14, 18>>, pos |-> <<150, 150>>, offset |-> <<5, -3>>],
      [color |-> <<20, 100, 30>>, size |-> <<4, 4>>, pos |-> <<795, 300>>, offset |-> <<50, 0>>],
      [color |-> <<50, 60, 70>>, size |-> <<15, 15>>, pos |-> <<100, 100>>, offset |-> <<0, 0>>],
      [color |-> <<20, 100, 30>>, size |-> <<5, 5>>, pos |-> <<798, 598>>, offset |-> <<3, 3>>],
      [color |-> <<20, 100, 30>>, size |-> <<3, 2>>, pos |-> <<1, 1>>, offset |-> <<-1, -1>>],
      [color |-> <<20, 100, 30>>, size |-> <<2, 2>>, pos |-> <<800, 10>>, offset |-> <<7, -10>>] }

InitECS ==
    /\ pc = "idle"
    /\ \E draws \in [1..EntityesCount -> TestEntities] :
         /\ m_storage = populate(EmptyStorage, draws, 0)
         /\ added = components_of(draws)
    /\ m_systems = << >>
    /\ sysIdx = 0 /\ entIdx = 0
    /\ m_close = FALSE
    /\ queue = << >>
    /\ loads = NoLoads
    /\ fault = 0
    /\ frames = 0 /\ ticks = 0 /\ checks = 0
    /\ moves = [i \in 0..(EntityesCount - 1) |-> 0]
    /\ log = << >>

\* a caller registers one more system
Test_add_system ==
    /\ pc = "idle"
    /\ Len(m_systems) < MaxSystems
    /\ \E s \in SystemNames : m_systems' = add_system(m_systems, s)
    /\ UNCHANGED <<added, moves, pc, m_storage, sysIdx, entIdx, m_close, queue, loads, fault, frames,
                   ticks, checks, log>>

\* a caller calls update()
Test_update ==
    /\ pc = "idle"
    /\ ticks < MaxTicks
    /\ pc' = "ecs_update"
    /\ log' = << >>
    /\ UNCHANGED <<added, moves, m_storage, m_systems, sysIdx, entIdx, m_close, queue, loads, fault,
                   frames, ticks, checks>>

Test_update_return == ECS_update_return("idle")

NextECS ==
    \/ Test_add_system
    \/ Test_update
    \/ ECS_update_call
    \/ System_update_step
    \/ System_update_return
    \/ System_update_fault
    \/ Test_update_return

SpecECS == InitECS /\ [][NextECS]_vars

(***************************************************************************)
(* The storage registry on its own: a newly constructed ECS, then any       *)
(* sequence of add_component and add_system calls.                         *)
(***************************************************************************)
\* values a caller may hand to add_component, per component type
TestComponents(t) ==
    CASE t = "RenderComponent" -> {[color |-> <<50, 60, 60, 100>>]}
      [] t = "SizeComponent" -> {[size |-> Vec(15, 15)]}
      [] t = "PositionComponent" -> {[pos |-> Vec(100, 100)], [pos |-> Vec(0, 0)]}
      [] t = "MovementComponent" -> {[offset |-> Vec(-5, -5)], [offset |-> Vec(50, 0)]}

\* ECS ecs: as constructed
InitStore ==
    /\ pc = "idle"
    /\ m_storage = EmptyStorage
    /\ m_systems = << >>
    /\ sysIdx = 0 /\ entIdx = 0
    /\ m_close = FALSE
    /\ queue = << >>
    /\ loads = NoLoads
    /\ fault = 0
    /\ frames = 0 /\ ticks = 0 /\ checks = 0
    /\ moves = [i \in 0..(EntityesCount - 1) |-> 0]
    /\ added = EmptyStorage
    /\ log = << >>

\* a caller adds one component
Test_add_component ==
    /\ pc = "idle"
    /\ \E t \in ComponentTypes :
         /\ Len(added[t]) < MaxComponents
         /\ \E c \in TestComponents(t) :
              /\ m_storage' = add_component(m_storage, t, c)
              /\ added' = [added EXCEPT ![t] = Append(@, c)]
    /\ UNCHANGED <<pc, m_systems, sysIdx, entIdx, m_close, queue, loads, fault, frames,
                   ticks, checks, moves, log>>

NextStore ==
    \/ Test_add_component
    \/ Test_add_system

SpecStore == InitStore /\ [][NextStore]_vars

(***************************************************************************)
(* The long run of the particles: the storage as App::init fills it, then  *)
(* one ECS::update() after the other, as App::run's loop calls them.  Only *)
(* the storage is followed here: RenderSystem::update() writes no          *)
(* component, so each update is the whole loop of MovementSystem::update(). *)
(***************************************************************************)
\* draws within App::init's ranges: size 10..20, pos 100..200, offset -10..10
LifeDraws ==
    { [color |-> <<50, 60, 70>>, size |-> <<10, 20>>, pos |-> <<100, 200>>, offset |-> <<-10, 10>>],
      [color |-> <<50, 60, 70>>, size |-> <<15, 11>>, pos |-> <<200, 100>>, offset |-> <<10, -10>>],
      [color |-> <<50, 60, 70>>, size |-> <<20, 10>>, pos |-> <<153, 147>>, offset |-> <<7, -3>>],
      [color |-> <<50, 60, 70>>, size |-> <<13, 17>>, pos |-> <<100, 100>>, offset |-> <<-1, 0>>],
      [color |-> <<50, 60, 70>>, size |-> <<19, 15>>, pos |-> <<200, 200>>, offset |-> <<9, -8>>],
      [color |-> <<50, 60, 70>>, size |-> <<10, 10>>, pos |-> <<104, 195>>, offset |-> <<-6, 5>>],
      [color |-> <<50, 60, 70>>, size |-> <<11, 19>>, pos |-> <<198, 101>>, offset |-> <<8, -9>>],
      [color |-> <<50, 60, 70>>, size |-> <<20, 20>>, pos |-> <<100, 100>>, offset |-> <<-3, -4>>] }

RECURSIVE MovementSystem_update_loop(_, _)
\* MovementSystem::update(): the iterations from `index` on
MovementSystem_update_loop(store, index) ==
    IF index >= EntityesCount THEN store
    ELSE MovementSystem_update_loop(MovementSystem_update(store, index), index + 1)

InitLife ==
    /\ pc = "loop"
    /\ \E draws \in [1..EntityesCount -> LifeDraws] :
         /\ m_storage = populate(EmptyStorage, draws, 0)
         /\ added = components_of(draws)
    /\ m_systems = add_system(add_system(<< >>, "RenderSystem"), "MovementSystem")
    /\ sysIdx = 0 /\ entIdx = 0
    /\ m_close = FALSE
    /\ queue = << >>
    /\ loads = init_loads(TRUE, TRUE, TRUE, TRUE)
    /\ fault = 0
    /\ frames = 0 /\ ticks = 0 /\ checks = 0
    /\ moves = [i \in 0..(EntityesCount - 1) |-> 0]
    /\ log = << >>

\* one more m_ecs.update() of the run loop
Life_update ==
    /\ pc = "loop"
    /\ ticks < LifeTicks
    /\ m_storage' = MovementSystem_update_loop(m_storage, 0)
    /\ moves' = [i \in 0..(EntityesCount - 1) |-> moves[i] + 1]
    /\ ticks' = ticks + 1
    /\ UNCHANGED <<added, pc, m_systems, sysIdx, entIdx, m_close, queue, loads, fault,
                   frames, checks, log>>

NextLife == Life_update

SpecLife == InitLife /\ [][NextLife]_vars

(***************************************************************************)
(* Vocabulary of the properties.                                           *)
(***************************************************************************)
Entities == 0..(EntityesCount - 1)

IsPrefix(a, b) == Len(a) <= Len(b) /\ SubSeq(b, 1, Len(a)) = a

\* the entity values at index i, now and after the step
PosAt(i) == m_storage["PositionComponent"][i + 1].pos
SizeAt(i) == m_storage["SizeComponent"][i + 1].size
OffsetAt(i) == m_storage["MovementComponent"][i + 1].offset
ColorAt(i) == m_storage["RenderComponent"][i + 1].color
PosAfter(i) == m_storage'["PositionComponent"][i + 1].pos
OffsetAfter(i) == m_storage'["MovementComponent"][i + 1].offset

InSystem(name) ==
    pc = "ecs_update" /\ sysIdx \in 1..Len(m_systems) /\ m_systems[sysIdx] = name

\* the step is the iteration for entity i of the named system's update()
StepOn(name, i) == InSystem(name) /\ entIdx = i /\ entIdx' = i + 1

\* the containers one iteration of the named system's update() reads or writes
SystemAccesses(name) ==
    CASE name = "RenderSystem" ->
           {"RenderComponent", "SizeComponent", "PositionComponent"}
      [] name = "MovementSystem" ->
           {"PositionComponent", "SizeComponent", "MovementComponent"}

\* the system events of the log (loop iterations and returns)
SystemEvents == SelectSeq(log, LAMBDA e : e.ev \in {"access", "return"})

\* what one complete pass over the registered systems logs: for each system in
\* registration order, its iterations 0 .. EntityesCount-1, then its return
ExpectedTick ==
    [j \in 1..(Len(m_systems) * (EntityesCount + 1)) |->
        LET k == ((j - 1) \div (EntityesCount + 1)) + 1
            n == (j - 1) % (EntityesCount + 1)
        IN  IF n < EntityesCount
            THEN Event("access", m_systems[k], k, n)
            ELSE Event("return", m_systems[k], k, EntityesCount)]

\* C1: during one ECS::update() the systems run in registration order, each
\* over all its entities and to its return before the next starts, and when the
\* pass is over every registered system has run exactly once.
C1_UpdateOrder ==
    (pc = "ecs_update" /\ sysIdx > 0) =>
        /\ IsPrefix(SystemEvents, ExpectedTick)
        /\ (sysIdx = Len(m_systems) + 1 => SystemEvents = ExpectedTick)

C1_Witness ==
    /\ pc = "ecs_update" /\ Len(m_systems) = 2 /\ sysIdx = 3
    /\ m_systems[1] # m_systems[2]
    /\ Len(SystemEvents) = 2 * (EntityesCount + 1)

InitCompleted == pc \notin {"main"} /\ ~init_throws(loads)

\* C2: once App::init() has completed, every component container holds exactly
\* EntityesCount values, in every state from then on.
C2_Lockstep ==
    InitCompleted => \A t \in ComponentTypes : Len(m_storage[t]) = EntityesCount

C2_Witness ==
    /\ pc = "loop" /\ frames >= 2
    /\ \A t \in ComponentTypes : Len(m_storage[t]) = EntityesCount

\* the flip condition of the claim on one axis: half = size / 2, bound the
\* domain's extent on that axis
Beyond(position, size, bound) ==
    position + (size \div 2) > bound \/ position - (size \div 2) < 0

\* C3: every iteration of MovementSystem::update() flips the offset on an axis
\* exactly when the pre-tick box is beyond the domain on that axis, and then
\* adds the (possibly flipped) offset to the position once; with the two
\* concrete cases of the specification.
C3_Reflection ==
    [][\A i \in Entities : StepOn("MovementSystem", i) =>
         LET p == PosAt(i)  s == SizeAt(i)  m == OffsetAt(i)
             q == PosAfter(i)  n == OffsetAfter(i)
         IN  /\ n.x = IF Beyond(p.x, s.x, 800) THEN -m.x ELSE m.x
             /\ n.y = IF Beyond(p.y, s.y, 600) THEN -m.y ELSE m.y
             /\ q = Vec(p.x + n.x, p.y + n.y)
             /\ (p = Vec(0, 0) /\ s.x \div 2 = 1 /\ s.y \div 2 = 1 /\ m = Vec(-5, -5))
                    => (n = Vec(5, 5) /\ q = Vec(5, 5))
             /\ (p = Vec(150, 150) /\ s.x \div 2 = 7 /\ s.y \div 2 = 9 /\ m = Vec(5, -3))
                    => (n = Vec(5, -3) /\ q = Vec(155, 147))]_vars

C3_Witness ==
    /\ ticks >= 1
    /\ \E i \in Entities :
         PosAt(i) = Vec(5, 5) /\ OffsetAt(i) = Vec(5, 5) /\ SizeAt(i) = Vec(2, 2)
    /\ \E i \in Entities :
         PosAt(i) = Vec(155, 147) /\ OffsetAt(i) = Vec(5, -3) /\ SizeAt(i) = Vec(14, 18)

\* C4: MovementSystem::update() never clamps: each iteration displaces the
\* position by the full offset on each axis; the entity at (795,300), half
\* (2,2), offset (50,0) keeps its offset and lands at (845,300), outside.
C4_Tunneling ==
    [][\A i \in Entities : StepOn("MovementSystem", i) =>
         LET p == PosAt(i)  s == SizeAt(i)  m == OffsetAt(i)
             q == PosAfter(i)  n == OffsetAfter(i)
         IN  /\ Abs(q.x - p.x) = Abs(m.x) /\ Abs(q.y - p.y) = Abs(m.y)
             /\ (p = Vec(795, 300) /\ s = Vec(4, 4) /\ m = Vec(50, 0))
                    => /\ n = Vec(50, 0) /\ q = Vec(845, 300)
                       /\ q.x + (s.x \div 2) > 800]_vars

C4_Witness ==
    \E i \in Entities :
        /\ PosAt(i) = Vec(845, 300) /\ OffsetAt(i) = Vec(50, 0) /\ SizeAt(i) = Vec(4, 4)
        /\ ticks >= 1

\* the box of entity i on each axis, as the claim measures it
BeyondX(i) == Beyond(PosAt(i).x, SizeAt(i).x, 800)
BeyondY(i) == Beyond(PosAt(i).y, SizeAt(i).y, 600)

\* entity i has been moved, and its box is beyond the domain on the axis although
\* it was inside one offset earlier: its last MovementSystem iteration started
\* inside, did not flip, and carried the box past the boundary
TunnelledX(i) ==
    /\ moves[i] >= 1 /\ OffsetAt(i).x # 0 /\ BeyondX(i)
    /\ ~Beyond(PosAt(i).x - OffsetAt(i).x, SizeAt(i).x, 800)
TunnelledY(i) ==
    /\ moves[i] >= 1 /\ OffsetAt(i).y # 0 /\ BeyondY(i)
    /\ ~Beyond(PosAt(i).y - OffsetAt(i).y, SizeAt(i).y, 600)

\* C5 as stated: an entity that has tunnelled past the boundary on an axis does
\* not have its offset on that axis flipped by a later tick.
C5_NeverFlips ==
    [][\A i \in Entities : StepOn("MovementSystem", i) =>
         /\ (TunnelledX(i) => OffsetAfter(i).x = OffsetAt(i).x)
         /\ (TunnelledY(i) => OffsetAfter(i).y = OffsetAt(i).y)]_vars

\* C5, amended: a tick that starts with the box inside the domain on an axis
\* does not flip that axis even when its displacement carries the box beyond the
\* boundary; the very next tick of that entity flips the offset on that axis and
\* carries the entity back to where it came from.
C5_DelayedFlip ==
    [][\A i \in Entities : StepOn("MovementSystem", i) =>
         /\ (~BeyondX(i) => /\ OffsetAfter(i).x = OffsetAt(i).x
                            /\ PosAfter(i).x = PosAt(i).x + OffsetAt(i).x)
         /\ (~BeyondY(i) => /\ OffsetAfter(i).y = OffsetAt(i).y
                            /\ PosAfter(i).y = PosAt(i).y + OffsetAt(i).y)
         /\ (TunnelledX(i) => /\ OffsetAfter(i).x = -OffsetAt(i).x
                              /\ PosAfter(i).x = PosAt(i).x - OffsetAt(i).x
                              /\ ~Beyond(PosAfter(i).x, SizeAt(i).x, 800))
         /\ (TunnelledY(i) => /\ OffsetAfter(i).y = -OffsetAt(i).y
                              /\ PosAfter(i).y = PosAt(i).y - OffsetAt(i).y
                              /\ ~Beyond(PosAfter(i).y, SizeAt(i).y, 600))]_vars

\* the entity that tunnelled from (795,300) to (845,300) is back, its offset flipped
C5_Witness ==
    \E i \in Entities :
        /\ PosAt(i) = Vec(795, 300) /\ OffsetAt(i) = Vec(-50, 0) /\ SizeAt(i) = Vec(4, 4)
        /\ ticks >= 1

\* the submission the claim expects for entity i: the configured mesh and
\* shader, and the entity's position, size and colour as uniform values
ExpectedDraw(i) ==
    [mesh |-> 1, shader |-> 1,
     uniforms |-> << [name |-> "pos", value |-> <<100 * PosAt(i).x, 100 * PosAt(i).y, 0>>],
                     [name |-> "size", value |-> <<100 * SizeAt(i).x, 100 * SizeAt(i).y, 100>>],
                     [name |-> "color", value |-> ColorAt(i)] >>]

\* C6: each iteration of RenderSystem::update() appends exactly one submission,
\* that of its entity; nothing else touches the submissions; while the system
\* runs the submissions it made so far are those of entities 0, 1, ... in index
\* order, and EntityesCount of them when its loop is over.  The entity with
\* colour (0.5,0.6,0.6,1.0), size (15,15) at (100,100) gives those three values.
C6_RenderSubmissions ==
    /\ [][\A i \in Entities : StepOn("RenderSystem", i) =>
            /\ queue' = Append(queue, ExpectedDraw(i))
            /\ (ColorAt(i) = <<50, 60, 60, 100>> /\ SizeAt(i) = Vec(15, 15)
                    /\ PosAt(i) = Vec(100, 100))
                 => queue'[Len(queue')].uniforms =
                      << [name |-> "pos", value |-> <<10000, 10000, 0>>],
                         [name |-> "size", value |-> <<1500, 1500, 100>>],
                         [name |-> "color", value |-> <<50, 60, 60, 100>>] >>]_vars
    /\ [][queue' # queue => \E i \in Entities : StepOn("RenderSystem", i)]_vars
    /\ [](InSystem("RenderSystem") =>
            /\ Len(queue) >= entIdx
            /\ \A j \in 0..(entIdx - 1) :
                 queue[Len(queue) - entIdx + j + 1] = ExpectedDraw(j))

C6_Witness ==
    /\ InSystem("RenderSystem") /\ entIdx = EntityesCount
    /\ Len(queue) = EntityesCount
    /\ queue[1].uniforms[3].value = <<50, 60, 60, 100>>
    /\ queue[1].uniforms[1].value = <<10000, 10000, 0>>
    /\ queue[1].uniforms[2].value = <<1500, 1500, 100>>

\* the statements of App::run's loop body that the log shows
FrameSteps ==
    SelectSeq(log, LAMBDA e :
        e.ev \in {"process_events", "ecs_update", "render_fps", "display", "tick"})

StepNames(events) == [j \in 1..Len(events) |-> events[j].ev]

FrameOrder == <<"process_events", "ecs_update", "render_fps", "display", "tick">>

\* position in the log of the first event named ev (0: none)
FirstAt(ev) ==
    IF \E j \in 1..Len(log) : log[j].ev = ev
    THEN CHOOSE j \in 1..Len(log) : log[j].ev = ev /\ \A h \in 1..(j - 1) : log[h].ev # ev
    ELSE 0

\* C7: in every frame process_events, the ECS update, render_fps (the draw
\* submissions run() hands over), display and the timing step run once each in
\* that order; every system iteration lies between process_events and the
\* return of the ECS update; display presents the entities' submissions and the
\* two of render_fps; a frame starts only when the frame before it is complete.
C7_FrameOrder ==
    /\ [](pc \notin {"main", "run", "idle"} =>
            /\ IsPrefix(StepNames(FrameSteps), FrameOrder)
            /\ (pc = "loop" /\ frames > 0 => StepNames(FrameSteps) = FrameOrder)
            /\ \A j \in 1..Len(log) :
                 log[j].ev \in {"access", "return", "fault"} =>
                    /\ FirstAt("process_events") \in 1..(j - 1)
                    /\ FirstAt("ecs_update") \in {0} \cup ((j + 1)..Len(log))
            /\ \A j \in 1..Len(log) :
                 log[j].ev = "display" => log[j].i = EntityesCount + 2)
    /\ [][frames' # frames =>
            /\ pc = "loop" /\ frames' = frames + 1 /\ log' = << >>
            /\ (frames > 0 => StepNames(FrameSteps) = FrameOrder)]_vars

C7_Witness ==
    pc = "loop" /\ frames >= 2 /\ StepNames(FrameSteps) = FrameOrder

\* C8: should_close() is called only at the loop head, never inside the ECS
\* update, once per frame started plus once for the call that ends the loop; a
\* true answer starts no frame and leads to the normal return, a false answer
\* starts the next frame; after the loop no frame or tick follows; a run() that
\* finds the flag set at its first test executes no tick.
C8_CloseSampling ==
    /\ [](checks = frames + (IF pc \in {"dump", "returned"} THEN 1 ELSE 0))
    /\ [][checks' # checks =>
            /\ pc = "loop" /\ sysIdx = 0 /\ checks' = checks + 1
            /\ (m_close => pc' = "dump" /\ frames' = frames /\ ticks' = ticks)
            /\ (~m_close => pc' = "process_events" /\ frames' = frames + 1)]_vars
    /\ [][pc = "loop" => checks' = checks + 1]_vars
    /\ [][(pc = "dump" \/ pc = "returned") =>
            (pc' = "returned" /\ frames' = frames /\ ticks' = ticks)]_vars
    /\ [](pc \in {"dump", "returned"} => m_close /\ fault = 0 /\ ticks = frames)
    /\ [](pc \in {"dump", "returned"} /\ checks = 1 => frames = 0 /\ ticks = 0)

C8_Witness ==
    pc = "returned" /\ frames >= 1 /\ checks = frames + 1

C8_WitnessClosedAtStart ==
    pc = "returned" /\ frames = 0 /\ ticks = 0 /\ checks = 1

LoadFailed ==
    \E r \in {"font", "particle_shader", "text_shader", "mesh"} : loads[r] = "fail"

\* C9 as stated: a failed font, shader or mesh load aborts the startup: init()
\* does not complete, run() is not entered, no frame and no tick is executed.
C9_LoadFailureAborts ==
    LoadFailed => pc = "terminated" /\ frames = 0 /\ ticks = 0 /\ checks = 0

\* C10: when the update() of the system at position k throws, the program ends
\* there: the log of that frame ends with the fault, holds nothing of a system
\* after k, no return of the ECS update, no render_fps, display or timing step,
\* and no step follows.
C10_FaultIsFatal ==
    /\ [](fault > 0 =>
            /\ pc = "terminated"
            /\ Len(log) > 0 /\ log[Len(log)].ev = "fault" /\ log[Len(log)].k = fault
            /\ \A j \in 1..Len(log) :
                 /\ log[j].k <= fault
                 /\ log[j].ev \notin {"ecs_update", "render_fps", "display", "tick"}
                 /\ (log[j].ev = "fault" => j = Len(log)))
    /\ [][pc # "terminated"]_vars

C10_Witness ==
    /\ fault = 1 /\ pc = "terminated" /\ Len(m_systems) = 2 /\ frames >= 1
    /\ entIdx >= 1

\* C11: the type resolution gives every declared type its own slot; from the
\* empty registry on, every container holds exactly the values added for its
\* type, in call order; one add_component appends its value at the end of that
\* type's container and leaves the elements already there, the other
\* containers and the system list as they were.
C11_AddComponent ==
    /\ [](/\ DOMAIN m_storage = ComponentTypes
          /\ \A t \in ComponentTypes :
               /\ component_index_v(t) \in 0..(Len(VariantTypes) - 1)
               /\ Slot(component_index_v(t)) = t
               /\ m_storage[t] = added[t])
    /\ [][added' # added =>
            \E t \in ComponentTypes :
               /\ Len(added'[t]) = Len(added[t]) + 1
               /\ m_storage'[t] = Append(m_storage[t], added'[t][Len(added'[t])])
               /\ SubSeq(m_storage'[t], 1, Len(m_storage[t])) = m_storage[t]
               /\ \A u \in ComponentTypes \ {t} : m_storage'[u] = m_storage[u]
               /\ m_systems' = m_systems]_vars
    /\ [][m_storage' # m_storage => added' # added]_vars

C11_Witness ==
    /\ Len(m_systems) >= 1
    /\ m_storage["PositionComponent"] = <<[pos |-> Vec(0, 0)], [pos |-> Vec(100, 100)]>>
    /\ m_storage["MovementComponent"] = <<[offset |-> Vec(50, 0)]>>
    /\ m_storage["RenderComponent"] = << >>

\* C12: component values change only through MovementSystem::update: as long
\* as no movement iteration has run the storage is exactly what App::init
\* added; the render and size containers never differ from what was added;
\* and a step that changes the storage is either App::init filling it or one
\* MovementSystem iteration, which changes nothing but the position and the
\* movement component of its own entity.
C12_OnlyMovementWrites ==
    /\ []((\A i \in Entities : moves[i] = 0) => m_storage = added)
    /\ [](/\ m_storage["RenderComponent"] = added["RenderComponent"]
          /\ m_storage["SizeComponent"] = added["SizeComponent"])
    /\ [][m_storage' # m_storage =>
            \/ pc = "main"
            \/ \E i \in Entities :
                 /\ StepOn("MovementSystem", i)
                 /\ \A t \in ComponentTypes :
                      /\ Len(m_storage'[t]) = Len(m_storage[t])
                      /\ \A j \in Entities :
                           (t \in {"RenderComponent", "SizeComponent"} \/ j # i)
                              => m_storage'[t][j + 1] = m_storage[t][j + 1]]_vars

C12_Witness ==
    /\ pc = "display" /\ frames = 1
    /\ \A i \in Entities :
         /\ moves[i] = 1
         /\ PosAt(i) # added["PositionComponent"][i + 1].pos
         /\ SizeAt(i) = added["SizeComponent"][i + 1].size
         /\ ColorAt(i) = added["RenderComponent"][i + 1].color

\* C13: every component access of a system update is within its container:
\* before App::init nothing is registered and nothing has run; once App::init
\* is over every container holds EntityesCount values; the loop index of a
\* system stays within 0..EntityesCount; every iteration that ran used an
\* index in 0..EntityesCount-1; and an iteration about to run uses an index
\* below the length of each container it accesses.
C13_AccessInBounds ==
    /\ entIdx \in 0..EntityesCount
    /\ pc = "main" => m_systems = << >> /\ log = << >>
    /\ pc # "main" => \A t \in ComponentTypes : Len(m_storage[t]) = EntityesCount
    /\ \A k \in 1..Len(log) :
         log[k].ev = "access" => log[k].i \in 0..(EntityesCount - 1)
    /\ (pc = "ecs_update" /\ sysIdx \in 1..Len(m_systems) /\ entIdx < EntityesCount)
          => \A t \in SystemAccesses(m_systems[sysIdx]) : entIdx < Len(m_storage[t])

C13_Witness ==
    /\ InSystem("MovementSystem")
    /\ frames = 1
    /\ entIdx = EntityesCount - 1
    /\ \A t \in SystemAccesses("MovementSystem") : Len(m_storage[t]) = entIdx + 1

\* C14: on each axis the magnitude of an entity's offset is in every state what
\* it was when the entity was added, and every step leaves each offset
\* component as it was or negates it.
C14_SpeedKept ==
    /\ [](\A i \in Entities :
            /\ Abs(OffsetAt(i).x) = Abs(added["MovementComponent"][i + 1].offset.x)
            /\ Abs(OffsetAt(i).y) = Abs(added["MovementComponent"][i + 1].offset.y))
    /\ [][\A i \in Entities :
            /\ OffsetAfter(i).x \in {OffsetAt(i).x, 0 - OffsetAt(i).x}
            /\ OffsetAfter(i).y \in {OffsetAt(i).y, 0 - OffsetAt(i).y}]_vars

C14_Witness ==
    \E i \in Entities :
       /\ moves[i] >= 1
       /\ added["MovementComponent"][i + 1].offset.x # 0
       /\ OffsetAt(i).x = 0 - added["MovementComponent"][i + 1].offset.x
       /\ OffsetAt(i).y = added["MovementComponent"][i + 1].offset.y
       /\ OffsetAt(i).y # 0

\* C15: an entity drawn as App::init draws it (position 100..200, size 10..20,
\* offset -10..10, domain 800x600) has, after any number of ticks, its box
\* beyond the domain on an axis by at most the magnitude of its offset on
\* that axis, and a box that is beyond the domain on an axis after one tick
\* is within it on that axis after the next.  The box is position -+ size/2
\* with the half-extent the code computes.
C15_BoundedExcursion ==
    /\ [](\A i \in Entities :
            LET p == PosAt(i)  s == SizeAt(i)  m == OffsetAt(i) IN
            /\ p.x - TruncDiv(s.x, 2) >= 0 - Abs(m.x)
            /\ p.x + TruncDiv(s.x, 2) <= m_size.width + Abs(m.x)
            /\ p.y - TruncDiv(s.y, 2) >= 0 - Abs(m.y)
            /\ p.y + TruncDiv(s.y, 2) <= m_size.height + Abs(m.y))
    /\ [][\A i \in Entities :
            /\ BeyondX(i) => ~Beyond(PosAfter(i).x, SizeAt(i).x, m_size.width)
            /\ BeyondY(i) => ~Beyond(PosAfter(i).y, SizeAt(i).y, m_size.height)]_vars

C15_Witness ==
    /\ ticks >= 2
    /\ \E i \in Entities :
         /\ PosAt(i).x + TruncDiv(SizeAt(i).x, 2) > m_size.width
         /\ OffsetAt(i).x > 0
         /\ OffsetAt(i).y = 0 - added["MovementComponent"][i + 1].offset.y
         /\ OffsetAt(i).y # 0

\* the position uniform of the submission made for entity i in this frame
DrawnPos(i) == queue[i + 1].uniforms[1].value

\* C16: RenderSystem runs before MovementSystem in every tick, so the
\* submission made for an entity in tick n carries the position from before
\* tick n's movement: the entity has been moved n-1 times when it is drawn
\* (in tick 1 the submission carries the position it was added with), and
\* from the movement of tick n on until the frame is displayed the submission
\* still carries the earlier position, the stored one less the offset just
\* applied.
C16_DrawBeforeMove ==
    /\ [][\A i \in Entities : StepOn("RenderSystem", i) =>
            /\ moves[i] = ticks - 1
            /\ queue'[i + 1].uniforms[1].value = <<100 * PosAt(i).x, 100 * PosAt(i).y, 0>>
            /\ ticks = 1 => PosAt(i) = added["PositionComponent"][i + 1].pos]_vars
    /\ []((InSystem("MovementSystem") \/ pc = "render_fps" \/ pc = "display") =>
            \A i \in Entities :
               /\ Len(queue) > i
               /\ DrawnPos(i) =
                    IF moves[i] = ticks
                    THEN <<100 * (PosAt(i).x - OffsetAt(i).x),
                           100 * (PosAt(i).y - OffsetAt(i).y), 0>>
                    ELSE <<100 * PosAt(i).x, 100 * PosAt(i).y, 0>>)

C16_Witness ==
    /\ pc = "display" /\ frames = 2 /\ ticks = 2
    /\ \A i \in Entities :
         /\ moves[i] = 2
         /\ DrawnPos(i) # <<100 * PosAt(i).x, 100 * PosAt(i).y, 0>>
         /\ DrawnPos(i) # <<100 * added["PositionComponent"][i + 1].pos.x,
                            100 * added["PositionComponent"][i + 1].pos.y, 0>>

====
